---- MODULE Spec2Model ----
(***************************************************************************)
(* ovms_exporter: the OVMS -> Prometheus exporter.                         *)
(*                                                                         *)
(* src/main.go holds two programs, one after the other, and                *)
(* src/unnamed/part_000 a third:                                           *)
(*   "protocol"   (main.go 1-245): polls /api/protocol, four schemas keyed *)
(*                by the record's m_code, flat rendering, promMetric;      *)
(*   "historical" (main.go 247-392): polls /api/historical/<id>/D, the one *)
(*                normalized D schema, -filter, grouped rendering;         *)
(*   "offline"    (part_000): reads the records of the historical kind     *)
(*                from a file once, decodes and renders them as the        *)
(*                historical program does, and serves that fixed text: no  *)
(*                refresh loop, no lock.                                   *)
(* The variable `variant` says which of the binaries is running.           *)
(*                                                                         *)
(* Strings are TLA+ strings; Len, \o, Head, Tail and SubSeq act on them as *)
(* on sequences of one-character strings.                                  *)
(***************************************************************************)
EXTENDS Integers, Sequences, FiniteSets, TLC

(***************************************************************************)
(* Bounds of the model.                                                    *)
(***************************************************************************)
NumReaders == 2      \* concurrent /metrics requests
MaxRecords == 2      \* records in one fetched JSON array
MaxGroups == 3       \* metric groups in one rendered map (orders enumerated)

(***************************************************************************)
(* Character classes and small string helpers (Go: strings, strconv).      *)
(***************************************************************************)
Digits == {"0", "1", "2", "3", "4", "5", "6", "7", "8", "9"}

Char(s, i) == SubSeq(s, i, i)

From(s, i) == SubSeq(s, i, Len(s))

isDigit(s, i) == i <= Len(s) /\ Char(s, i) \in Digits

DigitVal(c) ==
    CASE c = "0" -> 0 [] c = "1" -> 1 [] c = "2" -> 2 [] c = "3" -> 3
      [] c = "4" -> 4 [] c = "5" -> 5 [] c = "6" -> 6 [] c = "7" -> 7
      [] c = "8" -> 8 [] c = "9" -> 9

RECURSIVE atoi(_)
atoi(s) == IF s = "" THEN 0 ELSE 10 * atoi(SubSeq(s, 1, Len(s) - 1)) + DigitVal(Char(s, Len(s)))

RECURSIVE AllDigits(_)
AllDigits(s) == s = "" \/ (Head(s) \in Digits /\ AllDigits(Tail(s)))

\* The positions at or after i where s holds the character c, ascending.
Positions(s, c, i) ==
    SelectSeq([j \in 1..Len(s) |-> j], LAMBDA j : j >= i /\ Char(s, j) = c)

FirstOf(ps) == IF ps = <<>> THEN 0 ELSE ps[1]

\* The first such position: 0 when there is none.  Index is strings.Index
\* for a one-character substring.
IndexFrom(s, c, i) == FirstOf(Positions(s, c, i))

Index(s, c) == IndexFrom(s, c, 1)

\* strings.ReplaceAll(s, old, new) for a one-character old.
RECURSIVE ReplaceAll(_, _, _)
ReplaceAll(s, old, new) ==
    IF s = "" THEN ""
    ELSE (IF Head(s) = old THEN new ELSE Head(s)) \o ReplaceAll(Tail(s), old, new)

\* strings.Split(s, sep) for a one-character sep: the pieces between the
\* separators at positions ps; Split("", ",") is <<"">>.
SplitAt(s, ps) ==
    [k \in 1..(Len(ps) + 1) |->
       SubSeq(s, IF k = 1 THEN 1 ELSE ps[k - 1] + 1,
                 IF k > Len(ps) THEN Len(s) ELSE ps[k] - 1)]

Split(s, sep) == SplitAt(s, Positions(s, sep, 1))

\* strings.Join(a, sep): Join(<<>>, sep) is "".
RECURSIVE Join(_, _)
Join(a, sep) ==
    IF a = <<>> THEN ""
    ELSE IF Len(a) = 1 THEN a[1]
    ELSE a[1] \o sep \o Join(Tail(a), sep)

(***************************************************************************)
(* time.ParseInLocation("2006-01-02 15:04:05", value, time.UTC) and        *)
(* Time.UnixMilli, as the Go library (>= 1.17, which UnixMilli needs)      *)
(* computes them: a four-digit year, two-digit month, day, minute and      *)
(* second, a one- or two-digit hour ("15" is not a fixed-width verb), a    *)
(* run of spaces for the layout's space, an optional fraction of a second  *)
(* after the seconds, and nothing else.  The result is                     *)
(* [ok, sec, ms]: sec the Unix seconds and ms the milliseconds within the  *)
(* second.  Unix seconds are computed for 1970 <= year <= 2037, where they *)
(* fit the model checker's integers.                                       *)
(***************************************************************************)
RECURSIVE cutspace(_)
cutspace(s) == IF s # "" /\ Head(s) = " " THEN cutspace(Tail(s)) ELSE s

\* getnum(s, fixed): [ok, n, rest]
getnum(s, fixed) ==
    IF ~isDigit(s, 1) THEN [ok |-> FALSE, n |-> 0, rest |-> s]
    ELSE IF ~isDigit(s, 2)
         THEN IF fixed THEN [ok |-> FALSE, n |-> 0, rest |-> s]
              ELSE [ok |-> TRUE, n |-> DigitVal(Char(s, 1)), rest |-> From(s, 2)]
         ELSE [ok |-> TRUE, n |-> atoi(SubSeq(s, 1, 2)), rest |-> From(s, 3)]

\* skip(value, prefix) for a one-character prefix: [ok, rest]
skip(value, c) ==
    IF c = " "
    THEN IF value # "" /\ Head(value) # " " THEN [ok |-> FALSE, rest |-> value]
         ELSE [ok |-> TRUE, rest |-> cutspace(value)]
    ELSE IF value = "" \/ Head(value) # c THEN [ok |-> FALSE, rest |-> value]
         ELSE [ok |-> TRUE, rest |-> Tail(value)]

isLeap(year) == year % 4 = 0 /\ (year % 100 # 0 \/ year % 400 = 0)

daysIn(month, year) ==
    IF month = 2 THEN (IF isLeap(year) THEN 29 ELSE 28)
    ELSE IF month \in {4, 6, 9, 11} THEN 30 ELSE 31

\* Days from 1970-01-01 to year-month-day (proleptic Gregorian).
daysSinceEpoch(year, month, day) ==
    LET y   == IF month <= 2 THEN year - 1 ELSE year
        era == y \div 400
        yoe == y - era * 400
        mp  == IF month > 2 THEN month - 3 ELSE month + 9
        doy == (153 * mp + 2) \div 5 + day - 1
        doe == yoe * 365 + yoe \div 4 - yoe \div 100 + doy
    IN  era * 146097 + doe - 719468

\* The digits of a fraction ".ddd..." that follows the seconds: the number
\* of characters it takes (0 when there is none).
RECURSIVE digitRun(_, _)
digitRun(s, n) == IF isDigit(s, n + 1) THEN digitRun(s, n + 1) ELSE n

fractionLen(s) ==
    IF Len(s) >= 2 /\ Char(s, 1) \in {".", ","} /\ isDigit(s, 2)
    THEN digitRun(s, 2) ELSE 0

\* parseNanoseconds, reduced to the milliseconds UnixMilli keeps.
fractionMillis(s, n) ==
    LET digits == SubSeq(s, 2, IF n > 10 THEN 10 ELSE n)
    IN  atoi(SubSeq(digits \o "00", 1, 3))

BadTime == [ok |-> FALSE, sec |-> 0, ms |-> 0]

ParseInLocation(value) ==
    IF Len(value) < 4 \/ ~AllDigits(SubSeq(value, 1, 4)) THEN BadTime ELSE
    LET year == atoi(SubSeq(value, 1, 4))
        s1   == skip(From(value, 5), "-")
        mon  == getnum(s1.rest, TRUE)
        s2   == skip(mon.rest, "-")
        dd   == getnum(s2.rest, TRUE)
        s3   == skip(dd.rest, " ")
        hh   == getnum(s3.rest, FALSE)
        s4   == skip(hh.rest, ":")
        mi   == getnum(s4.rest, TRUE)
        s5   == skip(mi.rest, ":")
        ss   == getnum(s5.rest, TRUE)
        fl   == fractionLen(ss.rest)
        rest == From(ss.rest, fl + 1)
    IN  IF ~s1.ok \/ ~mon.ok \/ mon.n < 1 \/ mon.n > 12 THEN BadTime
        ELSE IF ~s2.ok \/ ~dd.ok THEN BadTime
        ELSE IF ~s3.ok \/ ~hh.ok \/ hh.n >= 24 THEN BadTime
        ELSE IF ~s4.ok \/ ~mi.ok \/ mi.n >= 60 THEN BadTime
        ELSE IF ~s5.ok \/ ~ss.ok \/ ss.n >= 60 THEN BadTime
        ELSE IF rest # "" THEN BadTime
        ELSE IF dd.n < 1 \/ dd.n > daysIn(mon.n, year) THEN BadTime
        ELSE [ok  |-> TRUE,
              sec |-> daysSinceEpoch(year, mon.n, dd.n) * 86400
                        + hh.n * 3600 + mi.n * 60 + ss.n,
              ms  |-> IF fl = 0 THEN 0 ELSE fractionMillis(ss.rest, fl)]

\* fmt's %d of ts.UnixMilli(), for a time at or after the epoch.
pad3(n) == IF n < 10 THEN "00" \o ToString(n)
           ELSE IF n < 100 THEN "0" \o ToString(n) ELSE ToString(n)

UnixMilli(ts) == IF ts.sec = 0 THEN ToString(ts.ms) ELSE ToString(ts.sec) \o pad3(ts.ms)

(***************************************************************************)
(* strconv.ParseFloat(val, 64) returns no error.  As in atof.go: special() *)
(* takes inf, infinity (any case, optional sign) and nan; readFloat takes  *)
(* a sign, an optional 0x prefix, a mantissa of digits with '_' and at     *)
(* most one '.', and an exponent (e for decimal, p for hexadecimal, where  *)
(* it is required); the whole string must be consumed; underscores must    *)
(* separate digits (underscoreOK); and a value that rounds to infinity is  *)
(* a range error.  A value that rounds to zero is no error.                *)
(***************************************************************************)
lower(c) ==
    CASE c = "A" -> "a" [] c = "B" -> "b" [] c = "C" -> "c" [] c = "D" -> "d"
      [] c = "E" -> "e" [] c = "F" -> "f" [] c = "I" -> "i" [] c = "N" -> "n"
      [] c = "O" -> "o" [] c = "P" -> "p" [] c = "T" -> "t" [] c = "X" -> "x"
      [] c = "Y" -> "y" [] OTHER -> c

\* s is word, whatever the case of its letters.
equalFold(s, word) ==
    Len(s) = Len(word) /\ \A i \in 1..Len(s) : lower(Char(s, i)) = Char(word, i)

\* The string without its sign.
unsigned(s) == IF s # "" /\ Head(s) \in {"+", "-"} THEN Tail(s) ELSE s

isSpecialFloat(s) ==
    \/ equalFold(unsigned(s), "inf")
    \/ equalFold(unsigned(s), "infinity")
    \/ equalFold(s, "nan")

HexLetters == {"a", "b", "c", "d", "e", "f"}

\* A digit of the mantissa in the given base.
isMantDigit(c, hex) == c \in Digits \/ (hex /\ lower(c) \in HexLetters)

hexVal(c) ==
    IF c \in Digits THEN DigitVal(c)
    ELSE CASE lower(c) = "a" -> 10 [] lower(c) = "b" -> 11 [] lower(c) = "c" -> 12
           [] lower(c) = "d" -> 13 [] lower(c) = "e" -> 14 [] OTHER -> 15

\* readFloat: `i+2 < len(s) && s[i] == '0' && lower(s[i+1]) == 'x'`.
hasHexPrefix(b) == Len(b) > 2 /\ Char(b, 1) = "0" /\ lower(Char(b, 2)) = "x"

\* The characters of s outside the set drop, as a sequence.
charsAt(s, ps) == [k \in 1..Len(ps) |-> Char(s, ps[k])]

dropChars(s, drop) ==
    charsAt(s, SelectSeq([i \in 1..Len(s) |-> i], LAMBDA i : Char(s, i) \notin drop))

\* The length of the mantissa at the start of m: digits, underscores and
\* the first '.'; the loop breaks at any other character and at a second '.'.
mantStops(m, hex) ==
    SelectSeq([i \in 1..Len(m) |-> i],
              LAMBDA i : ~(isMantDigit(Char(m, i), hex) \/ Char(m, i) \in {"_", "."}))

secondDot(dots) == IF Len(dots) >= 2 THEN dots[2] ELSE 0

firstStop(len, stop, dot2) ==
    IF stop = 0 /\ dot2 = 0 THEN len
    ELSE IF stop = 0 THEN dot2 - 1
    ELSE IF dot2 = 0 THEN stop - 1
    ELSE (IF stop < dot2 THEN stop ELSE dot2) - 1

mantLen(m, hex) ==
    firstStop(Len(m), FirstOf(mantStops(m, hex)), secondDot(Positions(m, ".", 1)))

\* The length of the exponent's digits at the start of r: digits and '_'.
expStops(r) ==
    SelectSeq([i \in 1..Len(r) |-> i], LAMBDA i : Char(r, i) \notin (Digits \cup {"_"}))

expLen(r) == firstStop(Len(r), FirstOf(expStops(r)), 0)

\* The exponent as readFloat accumulates it, `if e < 10000 { e = e*10 + d }`:
\* the number its first five significant digits spell, or fewer if it has
\* fewer.
firstNonZero(d) ==
    FirstOf(SelectSeq([i \in 1..Len(d) |-> i], LAMBDA i : d[i] # "0"))

trimZeros(d) == IF firstNonZero(d) = 0 THEN <<>> ELSE SubSeq(d, firstNonZero(d), Len(d))

pow10(n) == CASE n = 0 -> 1 [] n = 1 -> 10 [] n = 2 -> 100 [] n = 3 -> 1000 [] OTHER -> 10000

digitTerm(d, k, n) == IF k <= n THEN DigitVal(d[k]) * pow10(n - k) ELSE 0

spelled(d, n) ==
    digitTerm(d, 1, n) + digitTerm(d, 2, n) + digitTerm(d, 3, n)
      + digitTerm(d, 4, n) + digitTerm(d, 5, n)

cappedValue(d) == spelled(d, IF Len(d) < 5 THEN Len(d) ELSE 5)

expValue(r) == cappedValue(trimZeros(dropChars(r, {"_"})))

\* The parts readFloat finds in the unsigned string b with the mantissa
\* starting at m: [ok, hex, mant, exp], ok only when all of b is consumed.
NoFloat == [ok |-> FALSE, hex |-> FALSE, mant |-> "", exp |-> 0]

floatWithExp(hex, mant, r) ==
    IF r = "" THEN NoFloat
    ELSE IF unsigned(r) = "" \/ Head(unsigned(r)) \notin Digits THEN NoFloat
    ELSE IF expLen(unsigned(r)) # Len(unsigned(r)) THEN NoFloat
    ELSE [ok |-> TRUE, hex |-> hex, mant |-> mant,
          exp |-> (IF Head(r) = "-" THEN -1 ELSE 1) * expValue(unsigned(r))]

floatParts(hex, mant, rest) ==
    IF ~(\E i \in 1..Len(mant) : isMantDigit(Char(mant, i), hex)) THEN NoFloat
    ELSE IF rest # "" /\ lower(Head(rest)) = (IF hex THEN "p" ELSE "e")
    THEN floatWithExp(hex, mant, Tail(rest))
    ELSE IF hex \/ rest # "" THEN NoFloat
    ELSE [ok |-> TRUE, hex |-> FALSE, mant |-> mant, exp |-> 0]

readMantissa(m, hex) ==
    floatParts(hex, SubSeq(m, 1, mantLen(m, hex)), From(m, mantLen(m, hex) + 1))

readFloat(s) ==
    IF hasHexPrefix(unsigned(s)) THEN readMantissa(From(unsigned(s), 3), TRUE)
    ELSE readMantissa(unsigned(s), FALSE)

\* underscoreOK: every '_' follows a digit (or the base prefix) and is
\* followed by a digit.
underscoresSeparate(t, hex, prefixed) ==
    \A k \in 1..Len(t) :
        Char(t, k) = "_" =>
            /\ IF k = 1 THEN prefixed ELSE isMantDigit(Char(t, k - 1), hex)
            /\ k < Len(t) /\ isMantDigit(Char(t, k + 1), hex)

hasBasePrefix(b) ==
    Len(b) >= 2 /\ Char(b, 1) = "0" /\ lower(Char(b, 2)) \in {"b", "o", "x"}

underscoreOK(s) ==
    IF hasBasePrefix(unsigned(s))
    THEN underscoresSeparate(From(unsigned(s), 3),
                             lower(Char(unsigned(s), 2)) = "x", TRUE)
    ELSE underscoresSeparate(unsigned(s), FALSE, FALSE)

\* The mantissa's digits, the number of them before the point, and the
\* number of leading zeros.
mantDigits(mant) == dropChars(mant, {"_", "."})

intDigits(mant) ==
    Len(mantDigits(IF Index(mant, ".") = 0 THEN mant
                   ELSE SubSeq(mant, 1, Index(mant, ".") - 1)))

leadingZeros(d) == IF firstNonZero(d) = 0 THEN Len(d) ELSE firstNonZero(d) - 1

\* 2^1024 - 2^970: the least value that rounds to infinity (half way from
\* the largest float64 to 2^1024, which rounds to even).
OverflowThreshold ==
    "179769313486231580793728971405303415079934132710037826936173778980444968292764750946649017977587207096330286416692887910946555547851940402630657488671505820681908902000708383676273854845817711531764475730270069855571366959622842914819860834936475292719074168444365510704342711559699508093042880177904174497792"

\* Whether 0.sig is at least 0.thr, for the digits sig and the string thr.
digitAt(d, k) == IF k <= Len(d) THEN DigitVal(d[k]) ELSE 0

thresholdAt(thr, k) == IF k <= Len(thr) THEN DigitVal(Char(thr, k)) ELSE 0

firstDifference(sig, thr) ==
    FirstOf(SelectSeq([k \in 1..(Len(sig) + Len(thr)) |-> k],
                      LAMBDA k : digitAt(sig, k) # thresholdAt(thr, k)))

atLeast(sig, thr, k) == k = 0 \/ digitAt(sig, k) > thresholdAt(thr, k)

\* Decimal: the value is 0.sig * 10^dp10.
decimalOverflows(sig, dp10) ==
    \/ dp10 > Len(OverflowThreshold)
    \/ /\ dp10 = Len(OverflowThreshold)
       /\ atLeast(sig, OverflowThreshold, firstDifference(sig, OverflowThreshold))

\* Hexadecimal: the value's leading bit is 2^msb; at msb = 1023 it rounds
\* to infinity when its first 54 bits are ones.
bitLen(v) == IF v >= 8 THEN 4 ELSE IF v >= 4 THEN 3 ELSE IF v >= 2 THEN 2 ELSE 1

hexAt(sig, k) == IF k <= Len(sig) THEN hexVal(sig[k]) ELSE 0

onesBelow(sig, n, least) ==
    /\ \A k \in 2..(n + 1) : hexAt(sig, k) = 15
    /\ hexAt(sig, n + 2) >= least

first54Ones(sig) ==
    CASE hexAt(sig, 1) = 1 -> onesBelow(sig, 13, 8)
      [] hexAt(sig, 1) = 3 -> onesBelow(sig, 13, 0)
      [] hexAt(sig, 1) = 7 -> onesBelow(sig, 12, 14)
      [] hexAt(sig, 1) = 15 -> onesBelow(sig, 12, 12)
      [] OTHER -> FALSE

hexOverflows(sig, msb) == msb >= 1024 \/ (msb = 1023 /\ first54Ones(sig))

significant(d) == trimZeros(d)

overflows(f) ==
    IF significant(mantDigits(f.mant)) = <<>> THEN FALSE
    ELSE IF f.hex
    THEN hexOverflows(significant(mantDigits(f.mant)),
                      4 * (intDigits(f.mant) - leadingZeros(mantDigits(f.mant)) - 1)
                        + bitLen(hexAt(significant(mantDigits(f.mant)), 1)) - 1 + f.exp)
    ELSE decimalOverflows(significant(mantDigits(f.mant)),
                          intDigits(f.mant) - leadingZeros(mantDigits(f.mant)) + f.exp)

floatOk(s, f) ==
    /\ f.ok
    /\ Index(s, "_") # 0 => underscoreOK(s)
    /\ ~overflows(f)

\* A decimal or hexadecimal literal that strconv.ParseFloat accepts.
isDecimalFloat(s) == floatOk(s, readFloat(s))

ParseFloatOk(val) == isSpecialFloat(val) \/ isDecimalFloat(val)

(***************************************************************************)
(* fmt's %q of a string (strconv.Quote, appendEscapedRune): double quotes  *)
(* around the value; the quote and the backslash get a backslash; \a \b \f *)
(* \n \r \t \v are written by name; any other control character and DEL   *)
(* as \x and two hexadecimal digits; a printable character as it is.       *)
(* The model's strings hold no NUL and, beyond ASCII, printable characters *)
(* only.                                                                   *)
(***************************************************************************)
\* The ASCII control characters without a named escape, and their codes.
ControlChars == ""

ControlCodes == <<1, 2, 3, 4, 5, 6, 14, 15, 16, 17, 18, 19, 20, 21, 22, 23, 24, 25, 26, 27, 28, 29, 30, 31, 127>>

HexDigits == "0123456789abcdef"

hexByte(n) == Char(HexDigits, (n \div 16) + 1) \o Char(HexDigits, (n % 16) + 1)

quoteChar(c) ==
    CASE c = "\"" -> "\\\"" [] c = "\\" -> "\\\\" [] c = "\n" -> "\\n"
      [] c = "\t" -> "\\t" [] c = "\r" -> "\\r" [] c = "\f" -> "\\f"
      [] c = "" -> "\\a" [] c = "" -> "\\b" [] c = "" -> "\\v"
      [] Index(ControlChars, c) # 0 -> "\\x" \o hexByte(ControlCodes[Index(ControlChars, c)])
      [] OTHER -> c

RECURSIVE quoteBody(_)
quoteBody(s) == IF s = "" THEN "" ELSE quoteChar(Head(s)) \o quoteBody(Tail(s))

Quote(s) == "\"" \o quoteBody(s) \o "\""

(***************************************************************************)
(* promMetric (protocol variant): a value that parses as a float is the    *)
(* sample's value; any other value goes into the label, with value 1.      *)
(***************************************************************************)
promMetric(name, val, ts) ==
    LET tsMillis == UnixMilli(ts)
    IN  IF ~ParseFloatOk(val)
        THEN name \o "{value=" \o Quote(val) \o "} 1 " \o tsMillis
        ELSE name \o " " \o val \o " " \o tsMillis

(***************************************************************************)
(* fmt.Fprintf(w, m) with the cached text as the FORMAT and no operands:   *)
(* text is copied up to each '%'; after it fmt reads flags, a width, a     *)
(* precision and a verb, and writes %!v(MISSING) for verb v, % for %%,     *)
(* %!(NOVERB) when the format ends, %!(BADWIDTH) / %!(BADPREC) for '*'.    *)
(* A width or precision of more than 1e6 makes parsenum skip to the end of *)
(* the format.  (Argument indexes "[n]" are not modelled.)                 *)
(***************************************************************************)
FmtFlags == {"#", "0", "+", "-", " "}

RECURSIVE skipFlags(_, _)
skipFlags(f, i) == IF i <= Len(f) /\ Char(f, i) \in FmtFlags THEN skipFlags(f, i + 1) ELSE i

\* parsenum(f, i, end): the position after the number (Len(f) + 1 on overflow).
RECURSIVE parsenum(_, _, _)
parsenum(f, i, num) ==
    IF ~isDigit(f, i) THEN i
    ELSE IF num > 1000000 THEN Len(f) + 1
    ELSE parsenum(f, i + 1, num * 10 + DigitVal(Char(f, i)))

\* What fmt writes for the verb that starts after the '%' at position i - 1,
\* as [out, next]: the text written and the position where copying resumes.
verbAt(f, a, star, b, dot, pstar, c) ==
    [out  |-> (IF star THEN "%!(BADWIDTH)" ELSE "")
                \o (IF pstar THEN "%!(BADPREC)" ELSE "")
                \o (IF c > Len(f) THEN "%!(NOVERB)"
                    ELSE IF Char(f, c) = "%" THEN "%"
                    ELSE "%!" \o Char(f, c) \o "(MISSING)"),
     next |-> c + 1]

afterPrecision(f, a, star, b, dot, pstar) ==
    verbAt(f, a, star, b, dot, pstar,
           IF ~dot THEN b ELSE IF pstar THEN b + 2 ELSE parsenum(f, b + 1, 0))

afterWidth(f, a, star, b) ==
    afterPrecision(f, a, star, b,
                   b <= Len(f) /\ Char(f, b) = ".",
                   b <= Len(f) /\ Char(f, b) = "." /\ b + 1 <= Len(f) /\ Char(f, b + 1) = "*")

afterFlags(f, a) ==
    afterWidth(f, a, a <= Len(f) /\ Char(f, a) = "*",
               IF a <= Len(f) /\ Char(f, a) = "*" THEN a + 1 ELSE parsenum(f, a, 0))

verb(f, i) == afterFlags(f, skipFlags(f, i))

\* doPrintf from position i: the text up to the next '%' is copied, the verb
\* is handled, and so on to the end of the format.
RECURSIVE doPrintf(_, _)

resume(f, v) == v.out \o doPrintf(f, v.next)

copyTo(f, i, p) ==
    IF p = 0 THEN From(f, i)
    ELSE SubSeq(f, i, p - 1) \o resume(f, verb(f, p + 1))

doPrintf(f, i) == IF i > Len(f) THEN "" ELSE copyTo(f, i, IndexFrom(f, "%", i))

Fprintf(format) == doPrintf(format, 1)

(***************************************************************************)
(* regexp.MustCompile(pattern).MatchString(s) for the patterns the filter  *)
(* flag is drawn from: an optional leading ^, literal characters with "."  *)
(* matching any one character, an optional trailing $.                     *)
(***************************************************************************)
RECURSIVE litMatchAt(_, _, _)
litMatchAt(lit, s, at) ==
    \/ lit = ""
    \/ /\ at <= Len(s)
       /\ Head(lit) \in {".", Char(s, at)}
       /\ litMatchAt(Tail(lit), s, at + 1)

MatchString(pattern, s) ==
    LET anchS == pattern # "" /\ Head(pattern) = "^"
        p1    == IF anchS THEN Tail(pattern) ELSE pattern
        anchE == p1 # "" /\ Char(p1, Len(p1)) = "$"
        lit   == IF anchE THEN SubSeq(p1, 1, Len(p1) - 1) ELSE p1
        starts == IF anchS THEN {1} ELSE 1..(Len(s) + 1)
    IN  \E at \in starts :
           /\ at + Len(lit) - 1 <= Len(s)
           /\ anchE => at + Len(lit) - 1 = Len(s)
           /\ litMatchAt(lit, s, at)

(***************************************************************************)
(* Schema tables.  Protocol variant: one table per message-type code,      *)
(* selected through metricsMap.  Historical variant: the one D table, its  *)
(* names normalized ("." -> "_"); "" marks a field with no metric name.    *)
(***************************************************************************)
sMetrics ==
    << "ms_v_bat_soc", "m_units_distance", "ms_v_charge_voltage",
       "ms_v_charge_current", "ms_v_charge_state", "ms_v_charge_mode",
       "ms_v_bat_range_ideal", "ms_v_bat_range_est", "ms_v_charge_climit",
       "ms_v_charge_time", "car_charge_b4", "ms_v_charge_kwh",
       "ms_v_charge_substate", "ms_v_charge_state", "ms_v_charge_mode",
       "ms_v_charge_timermode", "ms_v_charge_timerstart", "car_stale_timer",
       "ms_v_bat_cac", "ms_v_charge_duration_full",
       "ms_v_charge_duration_chage_limit", "ms_v_charge_limit_range",
       "ms_v_charge_limit_soc", "ms_v_env_cooling", "car_cooldown_tbattery",
       "car_cooldown_timelimit", "car_chargeestimate", "mins_range",
       "mins_soc", "ms_v_bat_range_full", "car_chargetype", "ms_v_bat_power",
       "ms_v_bat_voltage", "ms_v_bat_soh", "ms_v_charge_power",
       "ms_v_charge_efficiency", "ms_v_bat_current", "ms_v_bat_range_speed" >>

dMetrics ==
    << "doors1", "doors2", "ms_v_env_locked", "ms_v_inv_temp",
       "ms_v_mot_temp", "ms_v_bat_temp", "ms_v_pos_trip",
       "ms_v_pos_odometer", "ms_v_pos_speed", "ms_v_env_parktime",
       "ms_v_env_temp", "doors3", "stale_temps", "ms_v_env_temp",
       "ms_v_bat_12v_voltage", "doors4", "ms_v_bat_12v_voltage_ref",
       "doors5", "ms_v_charge_temp", "ms_v_bat_12v_current",
       "ms_v_env_cabintemp" >>

lMetrics ==
    << "ms_v_pos_latitude", "ms_v_pos_longitude", "ms_v_pos_direction",
       "ms_v_pos_altitude", "ms_v_pos_gpslock", "stale", "ms_v_pos_speed",
       "ms_v_pos_trip", "drivemode", "ms_v_bat_power",
       "ms_v_bat_energy_used", "ms_v_bat_energy_recd", "ms_v_inv_power",
       "ms_v_inv_efficiency", "ms_v_pos_gpsmode", "ms_v_pos_satcount",
       "ms_v_pos_gpshdop", "ms_v_pos_gpsspeed", "ms_v_pos_gpssq" >>

wMetrics ==
    << "wheels_count", "wheel1", "wheel2", "wheel3", "wheel4",
       "ms_v_tpms_pressure_count", "ms_v_tpms_pressure", "defstale_pressure",
       "ms_v_tpms_temp_count", "ms_v_tpms_temp", "defstale_temp",
       "ms_v_tpms_health_count", "ms_v_tpms_health", "defstale_health",
       "ms_v_tpms_alert_count", "ms_v_tpms_alert", "defstale_alert" >>

metricsMapCodes == {"S", "D", "L", "W"}

metricsMap(code) ==
    CASE code = "S" -> sMetrics [] code = "D" -> dMetrics
      [] code = "L" -> lMetrics [] code = "W" -> wMetrics

\* Prometheus doesn't like "." in the metric names.
normalize(in) == [i \in 1..Len(in) |-> ReplaceAll(in[i], ".", "_")]

dMetricsHistorical ==
    normalize(
    << "", "", "", "", "v.m.temp", "v.b.temp", "v.p.trip", "v.p.odometer",
       "v.p.speed", "v.e.parktime", "v.e.temp", "", "", "",
       "v.b.12v.voltage", "", "v.b.12v.voltage.ref", "", "v.c.temp",
       "v.b.12v.current", "v.e.cabintemp" >>)

(***************************************************************************)
(* What one poll of the OVMS server gives the refresh task.                *)
(*   err:  "none", "get" (http.Get failed: the response is nil) or         *)
(*         "read" (io.ReadAll failed after reading body);                  *)
(*   body: [kind, records]: kind "empty" (zero bytes), "invalid" (bytes    *)
(*         json.Unmarshal rejects as a []record) or "array" (a JSON array  *)
(*         that decodes into records).                                     *)
(* A record is [Code, Msg, MsgTime] in the protocol variant and            *)
(* [Data, Timestamp] in the historical one (h_recordnumber is not used).   *)
(***************************************************************************)
EmptyBody == [kind |-> "empty", records |-> <<>>]

InvalidBody == [kind |-> "invalid", records |-> <<>>]

ArrayBody(recs) == [kind |-> "array", records |-> recs]

Response(e, b) == [err |-> e, body |-> b]

\* fetch(): [panic, nil, body].  The protocol variant returns nil on either
\* error.  The historical variant logs the error and goes on: after a failed
\* http.Get the response is nil and `defer resp.Body.Close()` dereferences it;
\* after a failed read it returns what was read.
fetchProtocol(resp) ==
    IF resp.err # "none"
    THEN [panic |-> FALSE, nil |-> TRUE, body |-> EmptyBody]
    ELSE [panic |-> FALSE, nil |-> FALSE, body |-> resp.body]

fetchHistorical(resp) ==
    IF resp.err = "get"
    THEN [panic |-> TRUE, nil |-> TRUE, body |-> EmptyBody]
    ELSE [panic |-> FALSE, nil |-> FALSE, body |-> resp.body]

(***************************************************************************)
(* The decode loops.  A sample is [name, val, ts, line]: the metric name,  *)
(* the raw field, the record's time in Unix milliseconds (as printed) and  *)
(* the rendered line.  The result of a loop is                             *)
(* [outcome, samples]: outcome "ok", "panic" (index out of range: the      *)
(* process dies) or "fatal" (vlog.Fatalf: the process exits).              *)
(***************************************************************************)
Sample(n, v, t, l) == [name |-> n, val |-> v, ts |-> t, line |-> l]

Decoded(o, s) == [outcome |-> o, samples |-> s]

\* Protocol variant, lines 198-212: a bad timestamp skips the record, an
\* unknown code yields nothing, and m[i] is indexed for every field.
protocolName(code, slot) == "ovms_" \o code \o "_" \o slot

protocolSamples(code, ts, data) ==
    IF ~ts.ok THEN Decoded("ok", <<>>)
    ELSE IF code \notin metricsMapCodes THEN Decoded("ok", <<>>)
    ELSE IF Len(data) > Len(metricsMap(code)) THEN Decoded("panic", <<>>)
    ELSE Decoded("ok",
           [i \in 1..Len(data) |->
              Sample(protocolName(code, metricsMap(code)[i]), data[i], UnixMilli(ts),
                     promMetric(protocolName(code, metricsMap(code)[i]), data[i], ts))])

decodeRecordProtocol(rec) ==
    protocolSamples(rec.Code, ParseInLocation(rec.MsgTime), Split(rec.Msg, ","))

\* Historical variant, lines 344-356: a bad timestamp is vlog.Fatalf,
\* dMetrics[i] is indexed for every field, and a field is kept when the
\* filter matches its metric name.
\* Mutant: every field is kept, whatever the filter.
keptFieldsAll(filter, n) == [i \in 1..n |-> i]

keptFields(filter, n) ==
    SelectSeq([i \in 1..n |-> i], LAMBDA i : MatchString(filter, dMetricsHistorical[i]))

historicalLine(m, val, ts) == m \o " " \o val \o " " \o UnixMilli(ts)

keptSamples(keep, ts, data) ==
    [k \in 1..Len(keep) |->
       Sample(dMetricsHistorical[keep[k]], data[keep[k]], UnixMilli(ts),
              historicalLine(dMetricsHistorical[keep[k]], data[keep[k]], ts))]

historicalSamples(filter, ts, data) ==
    IF ~ts.ok THEN Decoded("fatal", <<>>)
    ELSE IF Len(data) > Len(dMetricsHistorical) THEN Decoded("panic", <<>>)
    ELSE Decoded("ok", keptSamples(keptFields(filter, Len(data)), ts, data))

decodeRecordHistorical(filter, rec) ==
    historicalSamples(filter, ParseInLocation(rec.Timestamp), Split(rec.Data, ","))

decodeRecord(variant_, filter, rec) ==
    IF variant_ = "protocol" THEN decodeRecordProtocol(rec)
    ELSE decodeRecordHistorical(filter, rec)

\* `for _, rec := range records`: the first record that panics or exits
\* ends the loop and the process.
thenRecords(h, t) ==
    IF h.outcome # "ok" THEN h
    ELSE IF t.outcome # "ok" THEN t
    ELSE Decoded("ok", h.samples \o t.samples)

RECURSIVE decodeRecords(_, _, _)
decodeRecords(variant_, filter, records) ==
    IF records = <<>> THEN Decoded("ok", <<>>)
    ELSE thenRecords(decodeRecord(variant_, filter, Head(records)),
                     decodeRecords(variant_, filter, Tail(records)))

(***************************************************************************)
(* Rendering.                                                              *)
(***************************************************************************)
Lines(samples) == [i \in 1..Len(samples) |-> samples[i].line]

\* Protocol variant, line 215.
renderFlat(samples) == Join(Lines(samples), "\n") \o "\n"

\* The keys of the historical variant's map, metrics[m].
MetricNames(samples) == {samples[i].name : i \in 1..Len(samples)}

\* metrics[m]: the lines appended under m, in append order.
GroupLines(samples, m) == Lines(SelectSeq(samples, LAMBDA x : x.name = m))

\* Historical variant, lines 359-363: one block per key, the keys in the
\* order `range metrics` yields them.
RECURSIVE renderGrouped(_, _)
renderGrouped(samples, order) ==
    IF order = <<>> THEN ""
    ELSE "# TYPE " \o Head(order) \o " gauge\n"
           \o Join(GroupLines(samples, Head(order)), "\n") \o "\n"
           \o renderGrouped(samples, Tail(order))

\* The orders a `range` over a map with these keys can take: any.
RangeOrders(keys) ==
    {o \in [1..Cardinality(keys) -> keys] : \A i, j \in DOMAIN o : i # j => o[i] # o[j]}

(***************************************************************************)
(* fetchMetrics(): [outcome, text, samples].  `order` is the iteration     *)
(* order of the map (historical variant only).                             *)
(***************************************************************************)
Fetched(o, t, s) == [outcome |-> o, text |-> t, samples |-> s]

\* The body fetch() handed over is not a JSON array of records, or is empty.
notDecodable(data) == data.nil \/ data.body.kind # "array"

flatResult(d) ==
    IF d.outcome # "ok" THEN Fetched(d.outcome, "", <<>>)
    ELSE Fetched("ok", renderFlat(d.samples), d.samples)

protocolResult(data) ==
    IF notDecodable(data) THEN Fetched("ok", "", <<>>)
    ELSE flatResult(decodeRecords("protocol", "", data.body.records))

fetchMetricsProtocol(resp) == protocolResult(fetchProtocol(resp))

groupedResult(d, order) ==
    IF d.outcome # "ok" THEN Fetched(d.outcome, "", <<>>)
    ELSE Fetched("ok", renderGrouped(d.samples, order), d.samples)

historicalResult(filter, data, order) ==
    IF data.panic THEN Fetched("panic", "", <<>>)
    ELSE IF notDecodable(data) THEN Fetched("ok", "", <<>>)
    ELSE groupedResult(decodeRecords("historical", filter, data.body.records), order)

fetchMetricsHistorical(filter, resp, order) ==
    historicalResult(filter, fetchHistorical(resp), order)

\* The offline program, part_000 lines 60-98: os.ReadFile or json.Unmarshal
\* failing is vlog.Fatal; the decode loop and the rendering are those of the
\* historical program.
offlineResult(filter, resp, order) ==
    IF resp.err # "none" THEN Fetched("fatal", "", <<>>)
    ELSE IF resp.body.kind # "array" THEN Fetched("fatal", "", <<>>)
    ELSE groupedResult(decodeRecords("offline", filter, resp.body.records), order)

\* Whether the decode loop of the filtering programs is reached.
reachesLoop(variant_, resp) ==
    /\ resp.body.kind = "array"
    /\ IF variant_ = "offline" THEN resp.err = "none" ELSE resp.err # "get"

\* The keys the map of a filtering program ends with for this input ({} when
\* the loop is not reached or does not finish).
mapKeys(variant_, filter, resp) ==
    IF variant_ = "protocol" \/ ~reachesLoop(variant_, resp) THEN {}
    ELSE MetricNames(decodeRecords(variant_, filter, resp.body.records).samples)

(***************************************************************************)
(* Inputs: the configuration and the polls the model draws from.           *)
(***************************************************************************)
Variants == {"protocol", "historical", "offline"}

\* -filter: the default, a prefix of three names, the empty pattern (which
\* matches every name) and the pattern of the empty name alone.
Filters == {"^v_b_12v_voltage$", "^v_b_12v", "", "^$"}

\* The filters of the concurrent specification: those under which a poll
\* renders one group, so that the map order adds no texts.
PollFilters == {"^v_b_12v_voltage$", "^$"}

TimeGood == "2023-11-14 22:13:20"

TimeLater == "2023-11-14 22:14:20"

TimeBad == "2023-11-14T22:13:20"

Times == {TimeGood, TimeLater, TimeBad}

\* "1,2,...,n": field i holds the number i.
Numbered(n) == Join([i \in 1..n |-> ToString(i)], ",")

\* Numbered(n) with field k replaced by v.
WithField(n, k, v) == Join([i \in 1..n |-> IF i = k THEN v ELSE ToString(i)], ",")

ProtocolRecord(c, msg, t) == [Code |-> c, Msg |-> msg, MsgTime |-> t]

HistoricalRecord(d, t) == [Data |-> d, Timestamp |-> t]

\* Payloads of a protocol record: as many fields as the schema has slots, one
\* more, and for S also a short one with text values, one with the number
\* spellings ParseFloat tells apart, and the empty payload.
ProtocolMsgs(c) ==
    IF c \in metricsMapCodes
    THEN {Numbered(Len(metricsMap(c))), Numbered(Len(metricsMap(c)) + 1)}
           \cup (IF c = "S" THEN {"42.5,K,stopped,50%", "1_000,0x1p-2,1e400", ""}
                 ELSE {})
    ELSE {"1,2"}

\* Every payload at a valid time, and one payload at each time (a later one
\* and an unparseable one included).
ProtocolRecords ==
    {ProtocolRecord("S", msg, TimeGood) : msg \in ProtocolMsgs("S")}
      \cup {ProtocolRecord("S", "42.5,K,stopped,50%", t) : t \in Times}
      \cup UNION {{ProtocolRecord(c, msg, TimeGood) : msg \in ProtocolMsgs(c)} :
                    c \in {"D", "L", "W", "X"}}

HistoricalDatas ==
    {"", Numbered(6), Numbered(Len(dMetricsHistorical)),
     Numbered(Len(dMetricsHistorical) + 1),
     WithField(Len(dMetricsHistorical), 15, "stopped"),
     WithField(Len(dMetricsHistorical), 15, "50%")}

\* Likewise for the historical variant.
HistoricalRecords ==
    {HistoricalRecord(d, TimeGood) : d \in HistoricalDatas}
      \cup {HistoricalRecord(Numbered(6), t) : t \in Times}

RecordsOf(variant_) ==
    IF variant_ = "protocol" THEN ProtocolRecords ELSE HistoricalRecords

\* Every sequence of at most n elements of S.
SeqsUpTo(S, n) == UNION {[1..k -> S] : k \in 0..n}

\* The polls of the batch specification: every error, every kind of body and
\* every array of at most MaxRecords records.
BatchResponses(variant_) ==
    {Response("get", EmptyBody), Response("read", EmptyBody),
     Response("none", EmptyBody), Response("none", InvalidBody)}
      \cup {Response("none", ArrayBody(recs)) :
              recs \in SeqsUpTo(RecordsOf(variant_), MaxRecords)}

\* The polls of the concurrent specification: a few of the above, so that the
\* interleavings of the refresh task with the readers stay enumerable.
PollRecords(variant_) ==
    IF variant_ = "protocol"
    THEN {ProtocolRecord("S", "42.5,K,stopped,50%", TimeGood),
          ProtocolRecord("S", "1", TimeBad),
          ProtocolRecord("W", Numbered(Len(wMetrics) + 1), TimeGood)}
    ELSE {HistoricalRecord(Numbered(Len(dMetricsHistorical)), TimeGood),
          HistoricalRecord(WithField(Len(dMetricsHistorical), 15, "50%"), TimeLater),
          HistoricalRecord(Numbered(6), TimeBad),
          HistoricalRecord(Numbered(Len(dMetricsHistorical) + 1), TimeGood)}

PollResponses(variant_) ==
    {Response("get", EmptyBody), Response("none", InvalidBody),
     Response("read", ArrayBody(<<>>)), Response("none", ArrayBody(<<>>))}
      \cup {Response("none", ArrayBody(<<r>>)) : r \in PollRecords(variant_)}

(***************************************************************************)
(* State.                                                                  *)
(***************************************************************************)
VARIABLES
    variant,      \* which binary runs: "protocol", "historical" or "offline"
    filterFlag,   \* -filter (historical and offline variants)
    status,       \* "running", "panicked" (runtime panic) or "exited" (vlog.Fatalf)
    metricsText,  \* the cached text, a Go string header [ptr, len]
    muWriter,     \* mu: "free", "waiting" (Lock called, readers draining) or "held"
    muReaders,    \* mu: the requests that hold the read lock
    wpc,          \* the refresh goroutine's position
    wm,           \* the refresh goroutine's m
    cycle,        \* the refresh cycle in progress: its poll and decoded samples
    rpc,          \* each /metrics request's position
    rm,           \* each /metrics request's m
    body,         \* each request's response: [sent, text]
    published     \* history: the texts fetchMetrics returned and main stored

vars == <<variant, filterFlag, status, metricsText, muWriter, muReaders,
          wpc, wm, cycle, rpc, rm, body, published>>

Readers == 1..NumReaders

NoCycle == [polled |-> FALSE, resp |-> Response("none", EmptyBody), samples |-> <<>>]

NoBody == [sent |-> FALSE, text |-> ""]

\* The string a read of the header h yields.  With both words written by the
\* same assignment it is that assignment's string; a new pointer with an old
\* length is a prefix, or runs past the new string's end.
StringOf(h) ==
    IF h.len <= Len(h.ptr) THEN SubSeq(h.ptr, 1, h.len)
    ELSE h.ptr \o "<past the end>"

InitWith(filters) ==
    /\ variant \in Variants
    /\ filterFlag \in (IF variant = "protocol" THEN {""} ELSE filters)
    /\ status = "running"
    /\ metricsText = [ptr |-> "", len |-> 0]
    /\ muWriter = "free"
    /\ muReaders = {}
    /\ wpc = "fetch"
    /\ wm = ""
    /\ cycle = NoCycle
    /\ rpc = [r \in Readers |-> "idle"]
    /\ rm = [r \in Readers |-> ""]
    /\ body = [r \in Readers |-> NoBody]
    /\ published = {}

Init == InitWith(PollFilters)

InitBatch == InitWith(Filters)

(***************************************************************************)
(* The refresh goroutine: for { m := fetchMetrics(); if m != "" {          *)
(* mu.Lock(); metricsText = m; mu.Unlock() }; time.Sleep(...) }            *)
(***************************************************************************)
\* Where the goroutine goes once fetchMetrics has returned m.
AfterFetch(m) == IF m # "" THEN "lock" ELSE "sleep"

\* What the program computes from the input resp, for the map order `order`.
Computed(resp, order) ==
    CASE variant = "protocol" -> fetchMetricsProtocol(resp)
      [] variant = "historical" -> fetchMetricsHistorical(filterFlag, resp, order)
      [] OTHER -> offlineResult(filterFlag, resp, order)

\* m := fetchMetrics() in the polling programs.  In the offline program the
\* whole of main up to http.HandleFunc: the text `all` is computed once and
\* the handler that serves it is registered.
FetchResult(resp, f) ==
    /\ cycle' = [polled |-> TRUE, resp |-> resp, samples |-> f.samples]
    /\ IF f.outcome # "ok"
       THEN /\ status' = (IF f.outcome = "panic" THEN "panicked" ELSE "exited")
            /\ UNCHANGED <<wm, wpc, metricsText, published>>
       ELSE IF variant = "offline"
       THEN /\ wm' = f.text
            /\ metricsText' = [ptr |-> f.text, len |-> Len(f.text)]
            /\ published' = published \cup {f.text}
            /\ wpc' = "serving"
            /\ status' = status
       ELSE /\ wm' = f.text
            /\ wpc' = AfterFetch(f.text)
            /\ status' = status
            /\ UNCHANGED <<metricsText, published>>
    /\ UNCHANGED <<variant, filterFlag, muWriter, muReaders, rpc, rm, body>>

FetchStep(resp, order) == FetchResult(resp, Computed(resp, order))

FetchFrom(responses) ==
    /\ status = "running"
    /\ wpc = "fetch"
    /\ \E resp \in responses :
          /\ Cardinality(mapKeys(variant, filterFlag, resp)) <= MaxGroups
          /\ \E order \in RangeOrders(mapKeys(variant, filterFlag, resp)) :
                FetchStep(resp, order)

Fetch == FetchFrom(PollResponses(variant))

FetchBatch == FetchFrom(BatchResponses(variant))

\* mu.Lock(), first half: the writer announces itself; from here on no new
\* reader gets the read lock.
LockAnnounce ==
    /\ status = "running"
    /\ wpc = "lock"
    /\ muWriter = "free"
    /\ muWriter' = "waiting"
    /\ UNCHANGED <<variant, filterFlag, status, metricsText, muReaders,
                   wpc, wm, cycle, rpc, rm, body, published>>

\* mu.Lock(), second half: it returns once the readers have left.
WriterMayEnter == muReaders = {}

LockAcquire ==
    /\ status = "running"
    /\ wpc = "lock"
    /\ muWriter = "waiting"
    /\ WriterMayEnter
    /\ muWriter' = "held"
    /\ wpc' = "assign"
    /\ UNCHANGED <<variant, filterFlag, status, metricsText, muReaders,
                   wm, cycle, rpc, rm, body, published>>

\* metricsText = m stores the two words of the string header.
AssignPtr ==
    /\ status = "running"
    /\ wpc = "assign"
    /\ metricsText' = [metricsText EXCEPT !.ptr = wm]
    /\ wpc' = "assignLen"
    /\ UNCHANGED <<variant, filterFlag, status, muWriter, muReaders,
                   wm, cycle, rpc, rm, body, published>>

AssignLen ==
    /\ status = "running"
    /\ wpc = "assignLen"
    /\ metricsText' = [metricsText EXCEPT !.len = Len(wm)]
    /\ published' = published \cup {wm}
    /\ wpc' = "unlock"
    /\ UNCHANGED <<variant, filterFlag, status, muWriter, muReaders,
                   wm, cycle, rpc, rm, body>>

Unlock ==
    /\ status = "running"
    /\ wpc = "unlock"
    /\ muWriter' = "free"
    /\ wpc' = "sleep"
    /\ UNCHANGED <<variant, filterFlag, status, metricsText, muReaders,
                   wm, cycle, rpc, rm, body, published>>

\* time.Sleep(*pollDurationFlag) returns and the loop starts over.
Sleep ==
    /\ status = "running"
    /\ wpc = "sleep"
    /\ wpc' = "fetch"
    /\ wm' = ""
    /\ cycle' = NoCycle
    /\ UNCHANGED <<variant, filterFlag, status, metricsText, muWriter, muReaders,
                   rpc, rm, body, published>>

(***************************************************************************)
(* A /metrics request: mu.RLock(); m := metricsText; mu.RUnlock();         *)
(* fmt.Fprintf(w, m)                                                       *)
(***************************************************************************)
\* Mutant: mu as a sync.Mutex, one reader at a time.
ReaderMayEnterAlone == muWriter = "free" /\ muReaders = {}

\* mu.RLock() returns unless a writer holds the lock or waits for it.
ReaderMayEnter == muWriter = "free"

RLock(r) ==
    /\ status = "running"
    /\ variant # "offline"
    /\ rpc[r] = "idle"
    /\ ReaderMayEnter
    /\ muReaders' = muReaders \cup {r}
    /\ rpc' = [rpc EXCEPT ![r] = "read"]
    /\ body' = [body EXCEPT ![r] = NoBody]
    /\ UNCHANGED <<variant, filterFlag, status, metricsText, muWriter,
                   wpc, wm, cycle, rm, published>>

Read(r) ==
    /\ status = "running"
    /\ rpc[r] = "read"
    /\ rm' = [rm EXCEPT ![r] = StringOf(metricsText)]
    /\ rpc' = [rpc EXCEPT ![r] = "runlock"]
    /\ UNCHANGED <<variant, filterFlag, status, metricsText, muWriter, muReaders,
                   wpc, wm, cycle, body, published>>

RUnlock(r) ==
    /\ status = "running"
    /\ rpc[r] = "runlock"
    /\ muReaders' = muReaders \ {r}
    /\ rpc' = [rpc EXCEPT ![r] = "respond"]
    /\ UNCHANGED <<variant, filterFlag, status, metricsText, muWriter,
                   wpc, wm, cycle, rm, body, published>>

Respond(r) ==
    /\ status = "running"
    /\ rpc[r] = "respond"
    /\ body' = [body EXCEPT ![r] = [sent |-> TRUE, text |-> Fprintf(rm[r])]]
    /\ rm' = [rm EXCEPT ![r] = ""]
    /\ rpc' = [rpc EXCEPT ![r] = "idle"]
    /\ UNCHANGED <<variant, filterFlag, status, metricsText, muWriter, muReaders,
                   wpc, wm, cycle, published>>

\* The offline program's handler: fmt.Fprintf(w, all), with no lock.
ServeStatic(r) ==
    /\ status = "running"
    /\ variant = "offline"
    /\ wpc = "serving"
    /\ rpc[r] = "idle"
    /\ body' = [body EXCEPT ![r] = [sent |-> TRUE, text |-> Fprintf(StringOf(metricsText))]]
    /\ UNCHANGED <<variant, filterFlag, status, metricsText, muWriter, muReaders,
                   wpc, wm, cycle, rpc, rm, published>>

Next ==
    \/ Fetch
    \/ LockAnnounce
    \/ LockAcquire
    \/ AssignPtr
    \/ AssignLen
    \/ Unlock
    \/ Sleep
    \/ \E r \in Readers : RLock(r)
    \/ \E r \in Readers : Read(r)
    \/ \E r \in Readers : RUnlock(r)
    \/ \E r \in Readers : Respond(r)
    \/ \E r \in Readers : ServeStatic(r)

Spec == Init /\ [][Next]_vars

\* One refresh cycle from process start, over every poll of BatchResponses.
NextBatch ==
    \/ FetchBatch
    \/ LockAnnounce
    \/ LockAcquire
    \/ AssignPtr
    \/ AssignLen
    \/ Unlock

SpecBatch == InitBatch /\ [][NextBatch]_vars

(***************************************************************************)
(* Properties of the cache and the refresh contract (checked under Spec).  *)
(***************************************************************************)
\* The cached text as a read of the variable yields it.
Cached == StringOf(metricsText)

\* The step in which the refresh goroutine runs fetchMetrics.
FetchTaken == wpc = "fetch" /\ status = "running" /\ cycle'.polled

\* A poll that fails: the fetch returns an error or no bytes, or the bytes
\* are not a JSON array of records.
FailedPoll(resp) == resp.err # "none" \/ resp.body.kind # "array"

\* C1 (as claimed): a refresh cycle that fails after a successful one leaves
\* the cached text byte-for-byte what it was, and the process keeps serving:
\* the goroutine goes to sleep without touching the cache.
C1_StaleServing ==
    [][(FetchTaken /\ published # {} /\ FailedPoll(cycle'.resp))
         => (status' = "running" /\ wpc' = "sleep" /\ Cached' = Cached)]_vars

\* The refresh goroutine is on its way through the assignment of a new text.
Publishing == wpc \in {"lock", "assign", "assignLen", "unlock"}

\* C2 (as claimed): a cycle whose decode yields no samples never replaces the
\* cached text: the goroutine is on its way to the assignment only with at
\* least one sample line.
C2_EmptyDecodeKeepsCache == Publishing => cycle.samples # <<>>

\* C3 (as claimed): every body a /metrics read observes is the empty initial
\* value or the complete text some refresh cycle published.
C3_BodyIsPublishedText ==
    \A r \in Readers : body[r].sent => body[r].text \in ({""} \cup published)

\* The value a request copies under the read lock is never torn: it is the
\* empty initial value or a complete published text.
ReadNeverTorn ==
    \A r \in Readers :
        rpc[r] \in {"runlock", "respond"} => rm[r] \in ({""} \cup published)

\* C4: the refresh goroutine neither holds nor waits for the write lock while
\* it fetches, decodes or sleeps; it holds the lock only around the
\* assignment of the new text; and a request that asks for the read lock
\* while no writer holds or awaits it gets it, whoever else is reading.  (The
\* offline program has no lock: its handler runs whenever it is serving.)
C4_LockOnlyAroundAssignment ==
    /\ wpc \in {"fetch", "sleep"} => muWriter = "free"
    /\ muWriter = "held" <=> wpc \in {"assign", "assignLen", "unlock"}
    /\ \A r \in Readers :
          (status = "running" /\ rpc[r] = "idle" /\ muWriter = "free")
             => IF variant = "offline" THEN wpc = "serving" => ENABLED ServeStatic(r)
                ELSE ENABLED RLock(r)

\* Two requests hold the read lock at once, after a text was published.
C4_Witness == Cardinality(muReaders) >= 2 /\ published # {}

(***************************************************************************)
(* Properties of decoding and rendering (checked under SpecBatch).         *)
(***************************************************************************)
\* The refresh cycle in progress polled a JSON array of records.
CycleDecodes ==
    cycle.polled /\ cycle.resp.err = "none" /\ cycle.resp.body.kind = "array"

CycleRecords == cycle.resp.body.records

HasSchema(rec) == variant # "protocol" \/ rec.Code \in metricsMapCodes

SchemaOf(rec) ==
    IF variant # "protocol" THEN dMetricsHistorical ELSE metricsMap(rec.Code)

PayloadOf(rec) == IF variant # "protocol" THEN rec.Data ELSE rec.Msg

TimeOf(rec) == IF variant # "protocol" THEN rec.Timestamp ELSE rec.MsgTime

FieldsOf(rec) == Split(PayloadOf(rec), ",")

Overlong(rec) == HasSchema(rec) /\ Len(FieldsOf(rec)) > Len(SchemaOf(rec))

ValidTime(rec) == ParseInLocation(TimeOf(rec)).ok

AnyRecord(P(_)) == \E i \in DOMAIN CycleRecords : P(CycleRecords[i])

EveryRecord(P(_)) == \A i \in DOMAIN CycleRecords : P(CycleRecords[i])

NotOverlong(rec) == ~Overlong(rec)

\* The samples the decode loop yields for the records of the cycle that
\* satisfy P.
SamplesOfRecords(P(_)) ==
    decodeRecords(variant, filterFlag, SelectSeq(CycleRecords, P)).samples

\* C5 (as claimed): a record with more fields than its schema has slots is
\* skipped; the process keeps running and the other records are decoded.
C5_LongPayloadSkipped ==
    (CycleDecodes /\ AnyRecord(Overlong) /\ EveryRecord(ValidTime))
       => (status = "running" /\ cycle.samples = SamplesOfRecords(NotOverlong))

\* C6 (as claimed): one record with an unparseable timestamp among records
\* with valid ones is skipped; the valid records yield their samples in
\* record order and the refresh task keeps running.
C6_BadTimestampSkipped ==
    (/\ CycleDecodes
     /\ Cardinality({i \in DOMAIN CycleRecords : ~ValidTime(CycleRecords[i])}) = 1
     /\ AnyRecord(ValidTime)
     /\ EveryRecord(NotOverlong))
       => (status = "running" /\ cycle.samples = SamplesOfRecords(ValidTime))

\* The lines of a rendered text.
SnapshotLines(text) == Split(text, "\n")

HeaderPrefix == "# TYPE "

HeaderSuffix == " gauge"

IsHeader(line) ==
    /\ Len(line) >= Len(HeaderPrefix) + Len(HeaderSuffix)
    /\ SubSeq(line, 1, Len(HeaderPrefix)) = HeaderPrefix
    /\ From(line, Len(line) - Len(HeaderSuffix) + 1) = HeaderSuffix

HeaderName(line) == SubSeq(line, Len(HeaderPrefix) + 1, Len(line) - Len(HeaderSuffix))

\* A header or a sample line whose metric name is the empty string.
EmptyNamed(line) ==
    \/ IsHeader(line) /\ HeaderName(line) = ""
    \/ line # "" /\ Head(line) = " "

NoneEmptyNamed(lines) == \A i \in DOMAIN lines : ~EmptyNamed(lines[i])

\* C7 (as claimed): no sample and no line of a rendered text carries the
\* empty metric name.
C7_NoEmptyName ==
    /\ \A i \in DOMAIN cycle.samples : cycle.samples[i].name # ""
    /\ NoneEmptyNamed(SnapshotLines(wm))

\* The metric name the program gives slot i of the record's schema.
SlotName(rec, i) ==
    IF variant # "protocol" THEN SchemaOf(rec)[i]
    ELSE "ovms_" \o rec.Code \o "_" \o SchemaOf(rec)[i]

\* The slots a record's samples are claimed to come from: the non-empty ones
\* (that the filter lets through, in the filtering variants).
ClaimedSlots(rec) ==
    SelectSeq([i \in 1..Len(SchemaOf(rec)) |-> i],
              LAMBDA i : /\ SchemaOf(rec)[i] # ""
                         /\ variant # "protocol"
                              => MatchString(filterFlag, SchemaOf(rec)[i]))

NameAndValue(samples) ==
    [i \in 1..Len(samples) |-> <<samples[i].name, samples[i].val>>]

ClaimedSamples(rec) ==
    [k \in 1..Len(ClaimedSlots(rec)) |->
       <<SlotName(rec, ClaimedSlots(rec)[k]), FieldsOf(rec)[ClaimedSlots(rec)[k]]>>]

ExactPayload(rec) ==
    HasSchema(rec) /\ ValidTime(rec) /\ Len(FieldsOf(rec)) = Len(SchemaOf(rec))

\* C8 (as claimed): a record with a valid timestamp and exactly as many
\* fields as its schema has slots yields one sample per non-empty slot, in
\* slot order, with the slot's name and the field's raw value.
C8_OneSamplePerSlot ==
    (CycleDecodes /\ Len(CycleRecords) = 1 /\ EveryRecord(ExactPayload))
       => (status = "running"
           /\ NameAndValue(cycle.samples) = ClaimedSamples(CycleRecords[1]))

\* The line the dual-mode rule gives a sample.
DualModeLine(s) ==
    IF ParseFloatOk(s.val) THEN s.name \o " " \o s.val \o " " \o s.ts
    ELSE s.name \o "{value=\"" \o s.val \o "\"} 1 " \o s.ts

\* C9 (as claimed): a sample whose raw value parses as a float is rendered
\* `<name> <value> <ts>`, any other `<name>{value="<raw>"} 1 <ts>`.
C9_DualMode ==
    \A i \in DOMAIN cycle.samples : cycle.samples[i].line = DualModeLine(cycle.samples[i])

\* The positions of the `# TYPE` headers among the lines of a text.
HeaderPositions(lines) ==
    SelectSeq([i \in 1..Len(lines) |-> i], LAMBDA i : IsHeader(lines[i]))

\* The lines between header k and the next header (or the text's last
\* newline).
BlockLines(lines, hs, k) ==
    SubSeq(lines, hs[k] + 1, (IF k < Len(hs) THEN hs[k + 1] ELSE Len(lines)) - 1)

\* Whether field i of record r of the cycle was decoded under the name m.
DecodedAs(m, r, i) ==
    /\ r \in DOMAIN CycleRecords
    /\ i \in DOMAIN FieldsOf(CycleRecords[r])
    /\ i \in DOMAIN dMetricsHistorical
    /\ dMetricsHistorical[i] = m

\* The names that match the filter and have at least one decoded field.
FilteredNames ==
    {m \in {dMetricsHistorical[i] : i \in DOMAIN dMetricsHistorical} :
       /\ MatchString(filterFlag, m)
       /\ \E r \in DOMAIN CycleRecords : \E i \in DOMAIN dMetricsHistorical :
             DecodedAs(m, r, i)}

\* The (record, field) pairs of the cycle, in record-then-field order.
RecordFieldPairs ==
    [k \in 1..(Len(CycleRecords) * Len(dMetricsHistorical)) |->
       <<((k - 1) \div Len(dMetricsHistorical)) + 1,
         ((k - 1) % Len(dMetricsHistorical)) + 1>>]

SampleLineOf(m, pair) ==
    m \o " " \o FieldsOf(CycleRecords[pair[1]])[pair[2]]
      \o " " \o UnixMilli(ParseInLocation(TimeOf(CycleRecords[pair[1]])))

LinesOfPairs(m, pairs) == [k \in 1..Len(pairs) |-> SampleLineOf(m, pairs[k])]

\* The sample lines of the metric m, in record order.
SampleLinesOf(m) ==
    LinesOfPairs(m, SelectSeq(RecordFieldPairs, LAMBDA pr : DecodedAs(m, pr[1], pr[2])))

\* The text is a sequence of blocks, one for each name of FilteredNames and
\* no other, each holding that metric's sample lines.
BlocksAsFiltered(lines, hs) ==
    /\ Len(hs) = Cardinality(FilteredNames)
    /\ {HeaderName(lines[hs[k]]) : k \in DOMAIN hs} = FilteredNames
    /\ hs # <<>> => (hs[1] = 1 /\ lines[Len(lines)] = "")
    /\ hs = <<>> => lines = <<"">>
    /\ \A k \in DOMAIN hs :
          /\ MatchString(filterFlag, HeaderName(lines[hs[k]]))
          /\ BlockLines(lines, hs, k) = SampleLinesOf(HeaderName(lines[hs[k]]))

FilteredCycle == variant # "protocol" /\ CycleDecodes /\ status = "running"

\* C10: with a name filter configured, the text a refresh cycle renders holds
\* one `# TYPE <name> gauge` block, with that metric's sample lines in record
\* order, for exactly the names that match the filter and have at least one
\* decoded field, and no line for any other name.
C10_FilteredBlocks ==
    FilteredCycle => BlocksAsFiltered(SnapshotLines(wm), HeaderPositions(SnapshotLines(wm)))

\* The default filter kept v_b_12v_voltage of a full record and dropped
\* v_m_temp and every other name.
C10_Witness ==
    /\ FilteredCycle
    /\ filterFlag = "^v_b_12v_voltage$"
    /\ wpc = "unlock"
    /\ Len(CycleRecords) = 1
    /\ DecodedAs("v_m_temp", 1, 5)
    /\ wm = "# TYPE v_b_12v_voltage gauge\nv_b_12v_voltage 15 1700000000000\n"

(***************************************************************************)
(* Liveness of the refresh loop (checked under SpecLive).                  *)
(***************************************************************************)
\* A step of the refresh goroutine.
RefreshStep ==
    \/ Fetch
    \/ LockAnnounce
    \/ LockAcquire
    \/ AssignPtr
    \/ AssignLen
    \/ Unlock
    \/ Sleep

\* A step of request r once mu.RLock() has returned.
HandlerStep(r) == Read(r) \/ RUnlock(r) \/ Respond(r)

\* The Go scheduler runs a goroutine that can run: the refresh goroutine's
\* fetch, lock, assignment, unlock and sleep each return, and a handler that
\* holds the read lock goes on to release it.  Requests need not arrive.
Fairness ==
    /\ WF_vars(RefreshStep)
    /\ \A r \in Readers : WF_vars(HandlerStep(r))

SpecLive == Init /\ [][Next]_vars /\ Fairness

\* The programs that poll in a loop.
HasRefreshLoop == variant # "offline"

\* The refresh goroutine is alive and about to poll.
AboutToPoll == status = "running" /\ wpc = "fetch"

\* The cycle in progress fetched a batch that decoded into samples.
ValidBatchFetched ==
    status = "running" /\ CycleDecodes /\ cycle.samples # <<>> /\ wpc = "lock"

\* The text of the cycle in progress is what a read of the cache yields.
SnapshotPublished == wpc = "sleep" /\ wm # "" /\ Cached = wm

\* Every cycle that fetched a batch with samples gets its text published.
ValidBatchPublished == ValidBatchFetched ~> SnapshotPublished

\* C11 (as claimed): the refresh loop never stops: whatever cycles failed
\* before, it comes back to poll again and again, and a cycle that fetches
\* a valid non-empty batch gets its text published.
C11_RefreshLiveness ==
    /\ []<>(HasRefreshLoop => AboutToPoll)
    /\ ValidBatchPublished

====
